---- MODULE Spec2Model ----
(***************************************************************************)
(* Model of the /search-jobs pipeline of src/main.py: request validation   *)
(* (JobSearchRequest), URL construction and fetch (search_jobs), listing   *)
(* extraction (parse_jobs) and the two text helpers sanitize_string and    *)
(* parse_relative_date.                                                    *)
(*                                                                         *)
(* Text that the code inspects character by character (sanitized text,     *)
(* relative-date phrases, image sources) is a sequence of code points.     *)
(* Labels, slugs and URL pieces, which the code only compares and          *)
(* concatenates, are TLA+ strings; a URL is the sequence of its pieces.    *)
(***************************************************************************)
EXTENDS Integers, Sequences, FiniteSets, TLC

VARIABLES
    pc,            \* position of the /search-jobs request
    request,       \* the request body: job_title, job_location
    response,      \* the HTTP response, once there is one
    URL,           \* local URL of search_jobs
    fetched,       \* sequence of URLs passed to requests.get
    job_elements,  \* local job_elements of parse_jobs
    idx,           \* position of the for loop of parse_jobs
    job_listings,  \* local job_listings of parse_jobs
    today,         \* datetime.today(), as a proleptic Gregorian ordinal
    san_pc, san_in, san_out1, san_out2,   \* sanitize_string applied once, twice
    d_pc, d_phrase, d_result              \* parse_relative_date applied

vars == <<pc, request, response, URL, fetched, job_elements, idx, job_listings,
          today, san_pc, san_in, san_out1, san_out2, d_pc, d_phrase, d_result>>

pipeVars == <<pc, request, response, URL, fetched, job_elements, idx, job_listings>>
sanVars == <<san_pc, san_in, san_out1, san_out2>>
dateVars == <<d_pc, d_phrase, d_result>>

---------------------------------------------------------------------------
(* Bounds *)

MaxLen == 4      \* longest input of sanitize_string, in code points
MaxWords == 3    \* most words concatenated into a relative-date phrase
MaxFrags == 2    \* most listing cards in a fetched document

---------------------------------------------------------------------------
(* Results of an operation that may raise *)

Ok(v) == [ok |-> TRUE, val |-> v, err |-> "none"]

Raise(e) == [ok |-> FALSE, val |-> <<>>, err |-> e]

---------------------------------------------------------------------------
(* sanitize_string *)

BACKSLASH == 92

\* str.encode('utf-8') of one code point; lone surrogates cannot be encoded
Utf8(cp) ==
    IF cp < 128 THEN Ok(<<cp>>)
    ELSE IF cp < 2048 THEN Ok(<<192 + (cp \div 64), 128 + (cp % 64)>>)
    ELSE IF cp \in 55296..57343 THEN Raise("UnicodeEncodeError")
    ELSE IF cp < 65536 THEN
        Ok(<<224 + (cp \div 4096), 128 + ((cp \div 64) % 64), 128 + (cp % 64)>>)
    ELSE Ok(<<240 + (cp \div 262144), 128 + ((cp \div 4096) % 64),
              128 + ((cp \div 64) % 64), 128 + (cp % 64)>>)

RECURSIVE EncodeUtf8(_)
EncodeUtf8(s) ==
    IF s = <<>> THEN Ok(<<>>)
    ELSE LET h == Utf8(Head(s))
             t == EncodeUtf8(Tail(s))
         IN IF ~h.ok THEN h ELSE IF ~t.ok THEN t ELSE Ok(h.val \o t.val)

\* the one-letter escapes of the unicode_escape codec: \\ \' \" \a \b \f \n \r \t \v
SimpleEscape ==
    (92 :> 92) @@ (39 :> 39) @@ (34 :> 34) @@ (97 :> 7) @@ (98 :> 8) @@
    (102 :> 12) @@ (110 :> 10) @@ (114 :> 13) @@ (116 :> 9) @@ (118 :> 11)

IsOctDigit(b) == b \in 48..55

IsHexDigit(b) == b \in 48..57 \/ b \in 65..70 \/ b \in 97..102

HexVal(b) == IF b \in 48..57 THEN b - 48 ELSE IF b \in 65..70 THEN b - 55 ELSE b - 87

\* value of the hexadecimal digits b[from..to]
RECURSIVE HexNumber(_, _, _)
HexNumber(b, from, to) ==
    IF to < from THEN 0 ELSE 16 * HexNumber(b, from, to - 1) + HexVal(b[to])

\* number of octal digits (at most three) starting at b[i]
OctCount(b, i) ==
    IF i + 1 <= Len(b) /\ IsOctDigit(b[i + 1])
    THEN IF i + 2 <= Len(b) /\ IsOctDigit(b[i + 2]) THEN 3 ELSE 2
    ELSE 1

RECURSIVE OctNumber(_, _, _)
OctNumber(b, from, to) ==
    IF to < from THEN 0 ELSE 8 * OctNumber(b, from, to - 1) + (b[to] - 48)

\* number of hex digits that \x, \u, \U require
HexWidth(c) == IF c = 120 THEN 2 ELSE IF c = 117 THEN 4 ELSE 8

\* bytes.decode('unicode_escape') with errors='strict', from byte i on
RECURSIVE DecodeFrom(_, _, _)
DecodeFrom(b, i, acc) ==
    IF i > Len(b) THEN Ok(acc)
    ELSE IF b[i] # BACKSLASH THEN DecodeFrom(b, i + 1, Append(acc, b[i]))
    ELSE IF i = Len(b) THEN Raise("UnicodeDecodeError")   \* \ at end of string
    ELSE LET c == b[i + 1] IN
        IF c = 10 THEN DecodeFrom(b, i + 2, acc)          \* backslash-newline
        ELSE IF c \in DOMAIN SimpleEscape
            THEN DecodeFrom(b, i + 2, Append(acc, SimpleEscape[c]))
        ELSE IF IsOctDigit(c)
            THEN LET n == OctCount(b, i + 1)
                 IN DecodeFrom(b, i + 1 + n, Append(acc, OctNumber(b, i + 1, i + n)))
        ELSE IF c \in {120, 117, 85}
            THEN LET w == HexWidth(c) IN
                 IF i + 1 + w > Len(b) \/ \E k \in (i + 2)..(i + 1 + w) : ~IsHexDigit(b[k])
                 THEN Raise("UnicodeDecodeError")          \* truncated escape
                 ELSE IF w = 8 /\ \E k \in (i + 2)..(i + 3) : b[k] # 48
                 THEN Raise("UnicodeDecodeError")          \* illegal Unicode character
                 ELSE LET v == HexNumber(b, i + 2 + (IF w = 8 THEN 2 ELSE 0), i + 1 + w)
                      IN IF v > 1114111 THEN Raise("UnicodeDecodeError")
                         ELSE DecodeFrom(b, i + 2 + w, Append(acc, v))
        ELSE IF c = 78 THEN Raise("UnicodeDecodeError")    \* \N without a known name
        ELSE DecodeFrom(b, i + 2, acc \o <<BACKSLASH, c>>) \* unknown escape is kept

DecodeUnicodeEscape(b) == DecodeFrom(b, 1, <<>>)

\* re.sub(r'[^\x20-\x7E]', '', s)
RECURSIVE DropNonPrintable(_)
DropNonPrintable(s) ==
    IF s = <<>> THEN <<>>
    ELSE IF Head(s) \in 32..126 THEN <<Head(s)>> \o DropNonPrintable(Tail(s))
    ELSE DropNonPrintable(Tail(s))

\* the characters \s and str.strip() treat as whitespace
IsSpace(c) == c \in {9, 10, 11, 12, 13, 28, 29, 30, 31, 32, 133, 160}

\* re.sub(r'\s+', ' ', s)
RECURSIVE CollapseSpaces(_)
CollapseSpaces(s) ==
    IF s = <<>> THEN <<>>
    ELSE IF IsSpace(Head(s))
        THEN IF Len(s) > 1 /\ IsSpace(s[2]) THEN CollapseSpaces(Tail(s))
             ELSE <<32>> \o CollapseSpaces(Tail(s))
    ELSE <<Head(s)>> \o CollapseSpaces(Tail(s))

RECURSIVE LStrip(_)
LStrip(s) == IF s # <<>> /\ IsSpace(Head(s)) THEN LStrip(Tail(s)) ELSE s

RECURSIVE RStrip(_)
RStrip(s) ==
    IF s # <<>> /\ IsSpace(s[Len(s)]) THEN RStrip(SubSeq(s, 1, Len(s) - 1)) ELSE s

\* str.strip()
Strip(s) == RStrip(LStrip(s))

sanitize_string(input_string) ==
    LET enc == EncodeUtf8(input_string) IN
    IF ~enc.ok THEN enc
    ELSE LET dec == DecodeUnicodeEscape(enc.val) IN
         IF ~dec.ok THEN dec
         ELSE Ok(Strip(CollapseSpaces(DropNonPrintable(dec.val))))

---------------------------------------------------------------------------
(* parse_relative_date *)

\* 'day', 'week', 'month', 'year' as code points
KwDay == <<100, 97, 121>>
KwWeek == <<119, 101, 101, 107>>
KwMonth == <<109, 111, 110, 116, 104>>
KwYear == <<121, 101, 97, 114>>

\* sub in s
Contains(s, sub) ==
    \E i \in 1..(Len(s) - Len(sub) + 1) : SubSeq(s, i, i + Len(sub) - 1) = sub

IsDigit(c) == c \in 48..57

\* re.search(r'\d+', s): the first maximal run of digits, matched |-> FALSE when None
FirstDigits(s) ==
    IF \E i \in 1..Len(s) : IsDigit(s[i])
    THEN LET start == CHOOSE i \in 1..Len(s) :
                          IsDigit(s[i]) /\ \A j \in 1..(i - 1) : ~IsDigit(s[j])
             stop == CHOOSE k \in start..Len(s) :
                          /\ \A j \in start..k : IsDigit(s[j])
                          /\ (k = Len(s) \/ ~IsDigit(s[k + 1]))
         IN [matched |-> TRUE, group |-> SubSeq(s, start, stop)]
    ELSE [matched |-> FALSE, group |-> <<>>]

\* timedelta accepts at most this many days in magnitude
TimedeltaMaxDays == 999999999

\* int(digits); every value above TimedeltaMaxDays is reported as TimedeltaMaxDays + 1,
\* which timedelta rejects like the value itself
RECURSIVE IntOf(_)
IntOf(digits) ==
    IF digits = <<>> THEN 0
    ELSE LET hi == IntOf(SubSeq(digits, 1, Len(digits) - 1))
             d == digits[Len(digits)] - 48
         IN IF hi > (TimedeltaMaxDays - d) \div 10 THEN TimedeltaMaxDays + 1
            ELSE 10 * hi + d

DaysBeforeMonth == <<0, 31, 59, 90, 120, 151, 181, 212, 243, 273, 304, 334>>

DaysInMonth == <<31, 28, 31, 30, 31, 30, 31, 31, 30, 31, 30, 31>>

Bool2Int(b) == IF b THEN 1 ELSE 0

\* the year, month and day that strftime('%Y-%m-%d') prints for a date ordinal
YMD(ordinal) ==
    LET n0 == ordinal - 1
        n400 == n0 \div 146097
        r400 == n0 % 146097
        n100 == r400 \div 36524
        r100 == r400 % 36524
        n4 == r100 \div 1461
        r4 == r100 % 1461
        n1 == r4 \div 365
        n == r4 % 365
        year == n400 * 400 + 1 + n100 * 100 + n4 * 4 + n1
    IN IF n1 = 4 \/ n100 = 4 THEN [year |-> year - 1, month |-> 12, day |-> 31]
       ELSE LET leap == n1 = 3 /\ (n4 # 24 \/ n100 = 3)
                m0 == (n + 50) \div 32
                p0 == DaysBeforeMonth[m0] + Bool2Int(m0 > 2 /\ leap)
                month == IF p0 > n THEN m0 - 1 ELSE m0
                preceding == IF p0 > n
                             THEN p0 - (DaysInMonth[month] + Bool2Int(month = 2 /\ leap))
                             ELSE p0
            IN [year |-> year, month |-> month, day |-> n - preceding + 1]

\* (today - timedelta(days = count * unit)).strftime('%Y-%m-%d')
DateBefore(ref, count, unit) ==
    IF count > TimedeltaMaxDays \div unit THEN Raise("OverflowError")
    ELSE IF ref - count * unit < 1 THEN Raise("OverflowError")  \* before year 1
    ELSE Ok(YMD(ref - count * unit))

\* int(re.search(r'\d+', relative_date).group()), then the subtraction
OffsetDate(ref, relative_date, unit) ==
    LET m == FirstDigits(relative_date) IN
    IF ~m.matched THEN Raise("AttributeError")    \* None.group()
    ELSE DateBefore(ref, IntOf(m.group), unit)

parse_relative_date(ref, relative_date) ==
    IF Contains(relative_date, KwDay) THEN OffsetDate(ref, relative_date, 1)
    ELSE IF Contains(relative_date, KwWeek) THEN OffsetDate(ref, relative_date, 7)
    ELSE IF Contains(relative_date, KwMonth) THEN OffsetDate(ref, relative_date, 30)
    ELSE IF Contains(relative_date, KwYear) THEN OffsetDate(ref, relative_date, 365)
    ELSE Ok(YMD(ref))

---------------------------------------------------------------------------
(* The catalog and JobSearchRequest *)

\* the dicts in insertion order, as label/slug pairs
LOCATION ==
    << <<"Los Angeles", "los-angeles">>, <<"New York", "new-york">>,
       <<"San Francisco", "san-francisco">>, <<"Seattle", "seattle">>,
       <<"Boston", "boston">>, <<"Chicago", "chicago">>, <<"Denver", "denver">>,
       <<"Austin", "austin">>, <<"District of Columbia", "district-of-columbia">> >>

TITLE ==
    << <<"Software Engineer", "software-engineer">>,
       <<"Engineering Manager", "engineering-manager">>,
       <<"Artificial Intelligence Engineer", "artificial-intelligence-engineer">>,
       <<"Machine Learning Engineer", "machine-learning-engineer">>,
       <<"Backend Engineer", "backend-engineer">>,
       <<"Mobile Engineer", "mobile-engineer">>,
       <<"Product Designer", "product-designer">>,
       <<"Frontend Engineer", "frontend-engineer">>,
       <<"Data Scientist", "data-scientist">>,
       <<"Full Stack Engineer", "full-stack-engineer">>,
       <<"Product Manager", "product-manager">>,
       <<"Designer", "designer">>,
       <<"Software Architect", "software-architect">>,
       <<"DevOps Engineer", "devops-engineer">> >>

\* dict.keys(), k in dict, dict[k]
Keys(d) == [i \in 1..Len(d) |-> d[i][1]]

HasKey(d, k) == \E i \in 1..Len(d) : d[i][1] = k

Get(d, k) == d[CHOOSE i \in 1..Len(d) : d[i][1] = k][2]

\* an Optional[str]
None == [isNone |-> TRUE, label |-> ""]

Some(label) == [isNone |-> FALSE, label |-> label]

\* the ValueError of a field validator: the message prefix and the joined labels
ValueError(prefix, labels) == [msg |-> prefix, labels |-> labels]

validate_job_title(v) ==
    IF ~HasKey(TITLE, v)
    THEN <<ValueError("Invalid job title. Must be one of: ", Keys(TITLE))>>
    ELSE <<>>

\* validate_job_location without the test for None
validate_job_location_NoneRejected(v) ==
    IF ~HasKey(LOCATION, v.label)
    THEN <<ValueError("Invalid location. Must be one of: ", Keys(LOCATION))>>
    ELSE <<>>

validate_job_location(v) ==
    IF ~v.isNone /\ ~HasKey(LOCATION, v.label)
    THEN <<ValueError("Invalid location. Must be one of: ", Keys(LOCATION))>>
    ELSE <<>>

\* construction of the request model: the errors of all fields are collected
JobSearchRequest(job_title, job_location) ==
    LET errors == validate_job_title(job_title) \o validate_job_location(job_location)
    IN [ok |-> errors = <<>>, errors |-> errors,
        job_title |-> job_title, job_location |-> job_location]

\* BuildURL with the location path built under /role/ instead of /role/l/
BuildURL_RolePath(job_title, job_location) ==
    IF job_location.isNone
    THEN <<"https://wellfound.com", "/role/", Get(TITLE, job_title)>>
    ELSE <<"https://wellfound.com", "/role/", Get(TITLE, job_title), "/",
           Get(LOCATION, job_location.label)>>

\* the f-strings of search_jobs, as the sequence of their pieces
BuildURL(job_title, job_location) ==
    IF job_location.isNone
    THEN <<"https://wellfound.com", "/role/", Get(TITLE, job_title)>>
    ELSE <<"https://wellfound.com", "/role/l/", Get(TITLE, job_title), "/",
           Get(LOCATION, job_location.label)>>

---------------------------------------------------------------------------
(* The fetched document: what BeautifulSoup finds in each listing card *)

\* the result of find(): an element with its text, or None
Elem(text) == [present |-> TRUE, text |-> text]

NoElem == [present |-> FALSE, text |-> <<>>]

\* an attribute of an element: its value, or missing
Attr(val) == [has |-> TRUE, val |-> val]

NoAttr == [has |-> FALSE, val |-> <<>>]

\* 'N/A', 'https://wellfound.com' and 'https://' as code points
NA == <<78, 47, 65>>

Origin ==
    <<104, 116, 116, 112, 115, 58, 47, 47, 119, 101, 108, 108, 102, 111, 117, 110,
      100, 46, 99, 111, 109>>

HttpsPrefix == <<104, 116, 116, 112, 115, 58, 47, 47>>

\* TextOf with a placeholder for a missing element instead of the exception
TextOf_Placeholder(e) == IF e.present THEN Ok(Strip(e.text)) ELSE Ok(NA)

\* element.text.strip(); None has no attribute text
TextOf(e) == IF e.present THEN Ok(Strip(e.text)) ELSE Raise("AttributeError")

\* re.search(r'https://[^\s]+', s), matched |-> FALSE when None
SearchHttps(s) ==
    LET starts == {i \in 1..Len(s) :
                      /\ i + 8 <= Len(s)
                      /\ SubSeq(s, i, i + 7) = HttpsPrefix
                      /\ ~IsSpace(s[i + 8])}
    IN IF starts = {} THEN [matched |-> FALSE, group |-> <<>>]
       ELSE LET i == CHOOSE x \in starts : \A y \in starts : x <= y
                k == CHOOSE x \in (i + 8)..Len(s) :
                         /\ \A j \in (i + 8)..x : ~IsSpace(s[j])
                         /\ (x = Len(s) \/ IsSpace(s[x + 1]))
            IN [matched |-> TRUE, group |-> SubSeq(s, i, k)]

\* job['salary']: the span of the first metadata row, sanitized
SalaryOf(rows) ==
    IF rows = <<>> THEN Raise("AttributeError")
    ELSE LET t == TextOf(rows[1]) IN IF ~t.ok THEN t ELSE sanitize_string(t.val)

\* job['company_image']
CompanyImageOf(img) ==
    IF ~img.present THEN Raise("TypeError")          \* None['src']
    ELSE IF ~img.src.has THEN Raise("KeyError")
    ELSE IF img.src.val = <<>> THEN Ok(NA)
    ELSE LET m == SearchHttps(img.src.val)
         IN IF m.matched THEN Ok(m.group) ELSE Raise("AttributeError")

\* job['posted_date']
PostedDateOf(ref, posted) ==
    LET t == TextOf(posted) IN IF ~t.ok THEN t ELSE parse_relative_date(ref, t.val)

\* LocationOf reading the first metadata row instead of the second
LocationOf_FirstRow(rows) ==
    IF Len(rows) > 1
    THEN LET t == TextOf(rows[1]) IN IF ~t.ok THEN t ELSE sanitize_string(t.val)
    ELSE Ok(NA)

\* job['location']
LocationOf(rows) ==
    IF Len(rows) > 1
    THEN LET t == TextOf(rows[2]) IN IF ~t.ok THEN t ELSE sanitize_string(t.val)
    ELSE Ok(NA)

\* job['posting_url']
PostingUrlOf(a) ==
    IF ~a.present THEN Raise("TypeError")
    ELSE IF ~a.href.has THEN Raise("KeyError")
    ELSE IF a.href.val = <<>> THEN Ok(NA)
    ELSE Ok(Origin \o a.href.val)

\* the statements of the loop body in order, each the value it assigns or what it raises
FieldResults(ref, e) ==
    << [key |-> "title", r |-> TextOf(e.a)],
       [key |-> "type", r |-> TextOf(e.badge)],
       [key |-> "salary", r |-> SalaryOf(e.rows)],
       [key |-> "company", r |-> TextOf(e.h2)],
       [key |-> "company_image", r |-> CompanyImageOf(e.img)],
       [key |-> "posted_date", r |-> PostedDateOf(ref, e.posted)],
       [key |-> "location", r |-> LocationOf(e.rows)],
       [key |-> "posting_url", r |-> PostingUrlOf(e.a)] >>

\* one pass of the loop body: the job dict, or the first exception raised
ExtractJob(ref, job_element) ==
    LET fr == FieldResults(ref, job_element)
        bad == {i \in 1..Len(fr) : ~fr[i].r.ok}
    IN IF bad # {}
       THEN Raise(fr[CHOOSE i \in bad : \A j \in bad : i <= j].r.err)
       ELSE Ok([k \in {fr[i].key : i \in 1..Len(fr)} |->
                   fr[CHOOSE i \in 1..Len(fr) : fr[i].key = k].r.val])

\* AppendJob inserting at the front
AppendJob_Front(listings, job) == <<job>> \o listings

\* job_listings.append(job)
AppendJob(listings, job) == Append(listings, job)

\* the fields of JobListing, all required
JobListing ==
    {"title", "type", "salary", "company", "company_image", "posted_date",
     "location", "posting_url"}

\* response_model = List[JobListing]
ResponseValid(jobs) == \A i \in 1..Len(jobs) : JobListing \subseteq DOMAIN jobs[i]

---------------------------------------------------------------------------
(* Inputs *)

\* labels a caller may send: valid ones, a wrong-case one, one of the other mapping
TitleInputs == {"Software Engineer", "DevOps Engineer", "software engineer", "Austin"}

LocationInputs == {None, Some("Austin"), Some("Remote"), Some("Designer")}

\* a listing card with every marker present
GoodCard ==
    [a |-> [present |-> TRUE, text |-> <<32, 83, 87, 69, 32>>,
            href |-> Attr(<<47, 106, 111, 98, 115, 47, 49>>)],
     badge |-> Elem(<<70, 117, 108, 108, 32, 84, 105, 109, 101>>),
     rows |-> <<Elem(<<36, 57, 107>>), Elem(<<78, 89>>)>>,
     h2 |-> Elem(<<67, 111>>),
     img |-> [present |-> TRUE,
              src |-> Attr(<<104, 116, 116, 112, 115, 58, 47, 47, 99, 47, 105>>)],
     posted |-> Elem(<<51, 32, 100, 97, 121, 115, 32, 97, 103, 111>>)]

NoLink == [present |-> FALSE, text |-> <<>>, href |-> NoAttr]

NoImg == [present |-> FALSE, src |-> NoAttr]

\* the cards of the fetched documents: GoodCard, and GoodCard with one part changed
Cards ==
    {GoodCard}
    \cup {[GoodCard EXCEPT !.a = x] :
            x \in {NoLink, [GoodCard.a EXCEPT !.href = NoAttr],
                   [GoodCard.a EXCEPT !.href = Attr(<<>>)]}}
    \cup {[GoodCard EXCEPT !.badge = NoElem], [GoodCard EXCEPT !.h2 = NoElem]}
    \cup {[GoodCard EXCEPT !.rows = x] :
            x \in {<<>>, <<Elem(<<36, 57, 107>>)>>, <<NoElem>>,
                   <<Elem(<<36, 57, 107>>), NoElem>>,
                   <<NoElem, Elem(<<78, 89>>)>>,
                   <<Elem(<<97, 92>>), Elem(<<78, 89>>)>>,
                   <<Elem(<<36, 57, 107>>), Elem(<<32, 78, 89, 32, 92, 110>>)>>}}
    \cup {[GoodCard EXCEPT !.img = x] :
            x \in {NoImg, [present |-> TRUE, src |-> NoAttr],
                   [present |-> TRUE, src |-> Attr(<<>>)],
                   [present |-> TRUE, src |-> Attr(<<47, 105, 46, 112, 110, 103>>)],
                   [present |-> TRUE,
                    src |-> Attr(<<47, 105, 63, 117, 61, 104, 116, 116, 112, 115, 58,
                                   47, 47, 99, 47, 105, 32, 119>>)]}}
    \cup {[GoodCard EXCEPT !.posted = x] :
            x \in {NoElem, Elem(<<116, 111, 100, 97, 121>>),
                   Elem(<<50, 32, 119, 101, 101, 107, 115, 32, 97, 103, 111>>),
                   Elem(<<110, 111, 119>>)}}

\* the documents: up to MaxFrags cards in document order
Documents == UNION {[1..n -> Cards] : n \in 0..MaxFrags}

\* readings of the clock: 2024-01-10 and 2026-11-05
Todays == {738895, 739925}

\* code points of the inputs of sanitize_string: \ n x 4 1 a space, e-acute, newline
SanAlphabet == {92, 110, 120, 52, 49, 97, 32, 233, 10}

SanInputs == UNION {[1..n -> SanAlphabet] : n \in 0..MaxLen}

\* words of the relative-date phrases: the unit keywords, 'to', 'ago', 's', ' ',
\* '3', '12', '3000'
Words ==
    {KwDay, KwWeek, KwMonth, KwYear, <<116, 111>>, <<97, 103, 111>>, <<115>>, <<32>>,
     <<51>>, <<49, 50>>, <<51, 48, 48, 48>>}

RECURSIVE Phrases(_)
Phrases(n) ==
    IF n = 0 THEN {<<>>}
    ELSE Phrases(n - 1) \cup {p \o w : p \in Phrases(n - 1), w \in Words}

---------------------------------------------------------------------------
(* The /search-jobs request *)

NoRequest == [job_title |-> "", job_location |-> None]

NoResponse == [status |-> 0, kind |-> "none", detail |-> <<>>, body |-> <<>>]

PipeInit ==
    /\ pc = "idle"
    /\ request = NoRequest
    /\ response = NoResponse
    /\ URL = <<>>
    /\ fetched = <<>>
    /\ job_elements = <<>>
    /\ idx = 0
    /\ job_listings = <<>>

SanIdle ==
    /\ san_pc = "off"
    /\ san_in = <<>>
    /\ san_out1 = Ok(<<>>)
    /\ san_out2 = Ok(<<>>)

DateIdle ==
    /\ d_pc = "off"
    /\ d_phrase = <<>>
    /\ d_result = Ok(<<>>)

Init ==
    /\ PipeInit
    /\ today \in Todays
    /\ SanIdle
    /\ DateIdle

\* FastAPI builds JobSearchRequest from the body; a failed validation is answered
\* with 422 and search_jobs is not called
PostSearchJobs(job_title, job_location) ==
    /\ pc = "idle"
    /\ LET req == JobSearchRequest(job_title, job_location) IN
        /\ request' = [job_title |-> job_title, job_location |-> job_location]
        /\ IF req.ok
           THEN /\ pc' = "search_jobs"
                /\ UNCHANGED response
           ELSE /\ pc' = "responded"
                /\ response' = [status |-> 422, kind |-> "error",
                                detail |-> req.errors, body |-> <<>>]
    /\ UNCHANGED <<URL, fetched, job_elements, idx, job_listings>>
    /\ UNCHANGED <<today, sanVars, dateVars>>

\* search_jobs up to the call of parse_jobs
MakeURL ==
    /\ pc = "search_jobs"
    /\ URL' = BuildURL(request.job_title, request.job_location)
    /\ pc' = "parse_jobs"
    /\ UNCHANGED <<request, response, fetched, job_elements, idx, job_listings>>
    /\ UNCHANGED <<today, sanVars, dateVars>>

\* requests.get and BeautifulSoup return a document; find_all gives its cards
Fetch ==
    /\ pc = "parse_jobs"
    /\ fetched' = Append(fetched, URL)
    /\ job_listings' = <<>>
    /\ \E document \in Documents :
        /\ job_elements' = document
        /\ pc' = IF document = <<>> THEN "return" ELSE "loop"
    /\ idx' = 1
    /\ UNCHANGED <<request, response, URL>>
    /\ UNCHANGED <<today, sanVars, dateVars>>

\* requests.get raises; search_jobs turns the exception into a 500
FetchFails ==
    /\ pc = "parse_jobs"
    /\ fetched' = Append(fetched, URL)
    /\ pc' = "responded"
    /\ response' = [status |-> 500, kind |-> "error",
                    detail |-> <<"Error fetching jobs: ", "ConnectionError">>,
                    body |-> <<>>]
    /\ UNCHANGED <<request, URL, job_elements, idx, job_listings>>
    /\ UNCHANGED <<today, sanVars, dateVars>>

\* one iteration of the for loop; an exception leaves parse_jobs and is turned
\* into a 500 by search_jobs, and job_listings is lost with the frame
LoopBody ==
    /\ pc = "loop"
    /\ LET job == ExtractJob(today, job_elements[idx]) IN
        IF job.ok
        THEN /\ job_listings' = AppendJob(job_listings, job.val)
             /\ idx' = idx + 1
             /\ pc' = IF idx = Len(job_elements) THEN "return" ELSE "loop"
             /\ UNCHANGED response
        ELSE /\ job_listings' = <<>>
             /\ pc' = "responded"
             /\ response' = [status |-> 500, kind |-> "error",
                             detail |-> <<"Error fetching jobs: ", job.err>>,
                             body |-> <<>>]
             /\ UNCHANGED idx
    /\ UNCHANGED <<request, URL, fetched, job_elements>>
    /\ UNCHANGED <<today, sanVars, dateVars>>

\* return job_listings, serialized through response_model
Return ==
    /\ pc = "return"
    /\ pc' = "responded"
    /\ response' = IF ResponseValid(job_listings)
                   THEN [status |-> 200, kind |-> "list", detail |-> <<>>,
                         body |-> job_listings]
                   ELSE [status |-> 500, kind |-> "error",
                         detail |-> <<"ResponseValidationError">>, body |-> <<>>]
    /\ UNCHANGED <<request, URL, fetched, job_elements, idx, job_listings>>
    /\ UNCHANGED <<today, sanVars, dateVars>>

Next ==
    \/ \E t \in TitleInputs, l \in LocationInputs : PostSearchJobs(t, l)
    \/ MakeURL
    \/ Fetch
    \/ FetchFails
    \/ LoopBody
    \/ Return

Spec == Init /\ [][Next]_vars

---------------------------------------------------------------------------
(* sanitize_string on its own: applied to an input, then to its own output *)

InitSan ==
    /\ PipeInit
    /\ today \in Todays
    /\ DateIdle
    /\ san_pc = "input"
    /\ san_in \in SanInputs
    /\ san_out1 = Ok(<<>>)
    /\ san_out2 = Ok(<<>>)

SanitizeOnce ==
    /\ san_pc = "input"
    /\ san_out1' = sanitize_string(san_in)
    /\ san_pc' = "once"
    /\ UNCHANGED <<san_in, san_out2, today, pipeVars, dateVars>>

SanitizeAgain ==
    /\ san_pc = "once"
    /\ san_out1.ok
    /\ san_out2' = sanitize_string(san_out1.val)
    /\ san_pc' = "twice"
    /\ UNCHANGED <<san_in, san_out1, today, pipeVars, dateVars>>

NextSan == SanitizeOnce \/ SanitizeAgain

SpecSan == InitSan /\ [][NextSan]_vars

---------------------------------------------------------------------------
(* parse_relative_date on its own *)

InitDate ==
    /\ PipeInit
    /\ today \in Todays
    /\ SanIdle
    /\ d_pc = "input"
    /\ d_phrase \in Phrases(MaxWords)
    /\ d_result = Ok(<<>>)

ParseDate ==
    /\ d_pc = "input"
    /\ d_result' = parse_relative_date(today, d_phrase)
    /\ d_pc' = "done"
    /\ UNCHANGED <<d_phrase, today, pipeVars, sanVars>>

NextDate == ParseDate

SpecDate == InitDate /\ [][NextDate]_vars

---------------------------------------------------------------------------
(* Properties *)

TitleLabels == {TITLE[i][1] : i \in 1..Len(TITLE)}

LocationLabels == {LOCATION[i][1] : i \in 1..Len(LOCATION)}

BadTitle == request.job_title \notin TitleLabels

BadLocation ==
    ~request.job_location.isNone /\ request.job_location.label \notin LocationLabels

\* some error of the 422 response lists exactly the given labels
Enumerates(labels) ==
    \E i \in 1..Len(response.detail) :
        {response.detail[i].labels[j] : j \in 1..Len(response.detail[i].labels)} = labels

\* C1: a request with a title label outside TITLE, or a given location label outside
\* LOCATION, is rejected by validation with an error that enumerates every valid
\* label of that mapping, and neither a URL is built nor a fetch made for it; a
\* request whose labels are all keys (location possibly None) passes validation.
C1_Validation ==
    pc # "idle" =>
        IF BadTitle \/ BadLocation
        THEN /\ pc = "responded"
             /\ response.status = 422
             /\ BadTitle => Enumerates(TitleLabels)
             /\ BadLocation => Enumerates(LocationLabels)
             /\ URL = <<>>
             /\ fetched = <<>>
        ELSE response.status # 422

C1_Witness ==
    /\ pc = "responded"
    /\ response.status = 422
    /\ request.job_title = "Software Engineer"
    /\ request.job_location = Some("Designer")

\* C2: sanitize_string returns a string for every input, malformed or truncated
\* escape sequences and non-ASCII characters included; it never raises.
C2_Total == san_pc # "input" => san_out1.ok

\* C3: sanitize_string applied to its own output returns that output unchanged.
C3_Idempotent == san_pc = "twice" => san_out2 = san_out1

HasUnit(p) ==
    Contains(p, KwDay) \/ Contains(p, KwWeek) \/ Contains(p, KwMonth) \/ Contains(p, KwYear)

HasInteger(p) == \E i \in 1..Len(p) : p[i] \in 48..57

\* C4: for a phrase without a unit keyword, and for a phrase with a unit keyword
\* but without an integer, parse_relative_date returns the reference date and
\* does not raise.
C4_Fallback ==
    (d_pc = "done" /\ (~HasUnit(d_phrase) \/ ~HasInteger(d_phrase)))
        => d_result = Ok(YMD(today))

\* the days per unit of the first keyword in the order day, week, month, year
UnitOf(p) ==
    IF Contains(p, KwDay) THEN 1
    ELSE IF Contains(p, KwWeek) THEN 7
    ELSE IF Contains(p, KwMonth) THEN 30
    ELSE 365

\* C5: for a phrase with a unit keyword and a first integer N, parse_relative_date
\* returns the reference date minus N days (day), else 7*N (week), else 30*N
\* (month), else 365*N (year), the first keyword in that order deciding.
C5_Offsets ==
    (d_pc = "done" /\ HasUnit(d_phrase) /\ HasInteger(d_phrase)) =>
        LET N == IntOf(FirstDigits(d_phrase).group)
            unit == UnitOf(d_phrase)
        IN /\ d_result.ok
           /\ N <= TimedeltaMaxDays \div unit
           /\ today - N * unit >= 1
           /\ d_result.val = YMD(today - N * unit)

\* C6: for a valid title t and optional location l, the one URL fetched is
\* base + '/role/' + TITLE[t] without a location and
\* base + '/role/l/' + TITLE[t] + '/' + LOCATION[l] with one.
C6_URL ==
    /\ pc \in {"loop", "return"} => Len(fetched) = 1
    /\ fetched # <<>> =>
        /\ Len(fetched) = 1
        /\ fetched[1] =
             IF request.job_location.isNone
             THEN <<"https://wellfound.com", "/role/", Get(TITLE, request.job_title)>>
             ELSE <<"https://wellfound.com", "/role/l/", Get(TITLE, request.job_title),
                    "/", Get(LOCATION, request.job_location.label)>>
        /\ (request.job_title = "Software Engineer" /\ request.job_location = Some("Austin"))
             => fetched[1] = <<"https://wellfound.com", "/role/l/", "software-engineer",
                               "/", "austin">>
        /\ (request.job_title = "Software Engineer" /\ request.job_location = None)
             => fetched[1] = <<"https://wellfound.com", "/role/", "software-engineer">>

C6_Witness ==
    /\ Len(fetched) = 1
    /\ request.job_title = "DevOps Engineer"
    /\ request.job_location = Some("Austin")

EightFields ==
    {"title", "type", "salary", "company", "company_image", "posted_date",
     "location", "posting_url"}

\* C7: every record parse_jobs returns has all eight fields; its location is 'N/A'
\* when the card has fewer than two metadata rows and the sanitized text of the
\* second row otherwise.
C7_Records ==
    response.kind = "list" =>
        \A i \in 1..Len(response.body) :
            /\ DOMAIN response.body[i] = EightFields
            /\ Len(job_elements[i].rows) < 2 => response.body[i].location = NA
            /\ Len(job_elements[i].rows) >= 2 =>
                 response.body[i].location
                    = sanitize_string(Strip(job_elements[i].rows[2].text)).val

C7_Witness ==
    /\ response.kind = "list"
    /\ Len(response.body) = 2
    /\ Len(job_elements[1].rows) = 1
    /\ Len(job_elements[2].rows) = 2
    /\ response.body[1].location = NA
    /\ response.body[2].location = <<78, 89>>

\* the card is GoodCard except, possibly, for its image and the href of its link
OnlyOptionalDiffer(e) == e = [GoodCard EXCEPT !.img = e.img, !.a.href = e.a.href]

NoImageUrl(e) ==
    \/ ~e.img.present
    \/ ~e.img.src.has
    \/ e.img.src.val = <<>>
    \/ ~SearchHttps(e.img.src.val).matched

NoHref(e) == ~e.a.href.has \/ e.a.href.val = <<>>

\* C8: a card with no img element, an img without src, an empty src or a src
\* without an https:// URL gives company_image 'N/A', a link with no or an empty
\* href gives posting_url 'N/A', and the record is produced all the same.
C8_OptionalAttributes ==
    (/\ pc = "responded"
     /\ job_elements # <<>>
     /\ \A i \in 1..Len(job_elements) : OnlyOptionalDiffer(job_elements[i]))
    => /\ response.kind = "list"
       /\ Len(response.body) = Len(job_elements)
       /\ \A i \in 1..Len(job_elements) :
            /\ NoImageUrl(job_elements[i]) => response.body[i].company_image = NA
            /\ NoHref(job_elements[i]) => response.body[i].posting_url = NA

\* title link, type badge, first metadata row with its span, company heading,
\* posted-date span
MandatoryPresent(e) ==
    /\ e.a.present
    /\ e.badge.present
    /\ Len(e.rows) >= 1
    /\ e.rows[1].present
    /\ e.h2.present
    /\ e.posted.present

LacksMandatory == \E i \in 1..Len(job_elements) : ~MandatoryPresent(job_elements[i])

\* C9: when a card of the document lacks a mandatory marker, parse_jobs returns
\* no records at all, the ones of earlier cards included, and the response is an
\* HTTP 500 error, never a list.
C9_LayoutFailure ==
    LacksMandatory =>
        /\ pc # "return"
        /\ pc = "responded" =>
             /\ response.status = 500
             /\ response.kind = "error"
             /\ response.body = <<>>

C9_Witness ==
    /\ pc = "responded"
    /\ Len(job_elements) = 2
    /\ job_elements[1] = GoodCard
    /\ ~job_elements[2].a.present
    /\ response.status = 500

\* C10: a successful parse_jobs returns one record per card, the i-th record
\* extracted from the i-th card; a document without cards gives the empty list
\* and no failure.
C10_Order ==
    /\ pc = "loop" =>
        /\ Len(job_listings) = idx - 1
        /\ \A i \in 1..Len(job_listings) :
             job_listings[i] = ExtractJob(today, job_elements[i]).val
    /\ response.kind = "list" =>
        /\ response.status = 200
        /\ Len(response.body) = Len(job_elements)
        /\ \A i \in 1..Len(response.body) :
             response.body[i] = ExtractJob(today, job_elements[i]).val
    /\ (pc = "responded" /\ fetched # <<>> /\ job_elements = <<>>)
        => (response.kind = "list" \/ response.detail[2] = "ConnectionError")

C10_Witness ==
    /\ response.kind = "list"
    /\ Len(response.body) = 2
    /\ response.body[1] # response.body[2]

====
